---- MODULE Spec2Model ----
(***************************************************************************)
(* BarakahBoost: the daily log -> feature table -> component scores ->     *)
(* weighted composite pipeline (scripts/process_barakah.py,                *)
(* scripts/calculate_barakah.py, utils/scoring.py), the stores it reads    *)
(* and writes (utils/io_utils.py) and the predictive analyzer              *)
(* (scripts/barakah_model.py).                                             *)
(*                                                                         *)
(* Number representation.  The program computes in Python floats; the      *)
(* model computes in exact integer arithmetic:                             *)
(*   - a score is an integer number of 1/ScoreScale points, the floor of   *)
(*     the real value (so 100 points is 100 * ScoreScale);                 *)
(*   - hours are integer multiples of 1/HourUnit hour, amounts of          *)
(*     1/AmountUnit currency unit, weights of 1/WeightUnit;                *)
(*   - a ratio or a composite is an exact fraction <<num, den>>, reduced;  *)
(*   - math.log is 2*log2 rounded down (LogFix), an order-preserving       *)
(*     staircase of the real logarithm.                                    *)
(* Float rounding is therefore not modelled.                               *)
(***************************************************************************)
EXTENDS Integers, Sequences, FiniteSets, TLC

\* ------------------------------------------------------------------ units
ScoreScale == 100
HourUnit == 4
AmountUnit == 2
WeightUnit == 100

\* ------------------------------------------------------------ arithmetic
Min(a, b) == IF a <= b THEN a ELSE b

Max(a, b) == IF a >= b THEN a ELSE b

Abs(a) == IF a < 0 THEN 0 - a ELSE a

RECURSIVE GCD(_, _)
GCD(a, b) == IF b = 0 THEN a ELSE GCD(b, a % b)

\* the fraction n/d (d > 0) in lowest terms
Frac(n, d) ==
    LET g == GCD(Abs(n), d)
    IN  IF g = 0 THEN <<0, 1>> ELSE <<n \div g, d \div g>>

FracLeq(x, y) == x[1] * y[2] <= y[1] * x[2]

RECURSIVE SumOver(_, _)
SumOver(f, S) ==
    IF S = {} THEN 0
    ELSE LET k == CHOOSE k \in S : TRUE
         IN  f[k] + SumOver(f, S \ {k})

RECURSIVE SumSeq(_)
SumSeq(s) == IF s = <<>> THEN 0 ELSE Head(s) + SumSeq(Tail(s))

\* floor(log2(n)) for n >= 1
RECURSIVE ILog2(_)
ILog2(n) == IF n <= 1 THEN 0 ELSE 1 + ILog2(n \div 2)

\* the model's logarithm of n/den (n >= den >= 1): floor(log2(n^2)) minus
\* floor(log2(den^2)), within 1 of 2*log2(n/den) and non-decreasing in n
LogFix(n, den) == ILog2(n * n) - ILog2(den * den)

\* 100 points, and the score of a real value num/den points
Hundred == 100 * ScoreScale

Points(num, den) == (num * ScoreScale) \div den

\* ------------------------------------------------- scoring.py: helpers
\* minmax(value, min_v, max_v): lines 10-14
minmax(value, min_v, max_v) ==
    IF max_v <= min_v THEN 0
    ELSE LET num == Max(0, Min(max_v - min_v, value - min_v))
         IN  Points(num * 100, max_v - min_v)

\* inverse_minmax(value, min_v, max_v): lines 16-18
inverse_minmax(value, min_v, max_v) == Hundred - minmax(value, min_v, max_v)

\* --------------------------------------- data/reference/surah_meta.py
\* NAME_TO_AYAH: surah name -> total ayah count (three rows of the table)
NAME_TO_AYAH == [s \in {"Al-Fatiha", "Al-Kahf", "Al-Ikhlas"} |->
                    CASE s = "Al-Fatiha" -> 7
                      [] s = "Al-Kahf" -> 110
                      [] OTHER -> 4]

\* the empty dict
EmptyDict == [k \in {} |-> 0]

\* dict.get(key, default)
Get(d, key, default) == IF key \in DOMAIN d THEN d[key] ELSE default

\* ---------------------------------------- scoring.py: component scorers
PRAYERS == {"Fajr", "Dhuhr", "Asr", "Maghrib", "Isha"}

\* score_prayer(prayers): prayers maps a prayer name to 0 or 1
score_prayer(prayers) ==
    IF DOMAIN prayers = {} THEN 0
    ELSE LET total == Cardinality(DOMAIN prayers)
             done == SumOver(prayers, DOMAIN prayers)
         IN  Points(done * 100, total)

\* the ayat one recitation item counts for in score_quran (lines 36-40)
ResolveAyat(r) ==
    LET ayat == Get(r, "ayahs", 0)
    IN  IF ayat = 0 THEN Get(NAME_TO_AYAH, Get(r, "surah", ""), 0) ELSE ayat

\* score_quran(recitations, base_points_per_ayah, max_daily_points); a rate
\* of points per unit is a fraction <<n, d>>
score_quran(recitations, base_points_per_ayah, max_daily_points) ==
    IF recitations = <<>> THEN 0
    ELSE LET ayat == SumSeq([i \in 1..Len(recitations) |->
                                ResolveAyat(recitations[i])])
         IN  Min(Hundred, Points(ayat * base_points_per_ayah[1] * 100,
                                 base_points_per_ayah[2] * max_daily_points))

\* score_dhikr(total_reps, points_per_repetition, max_daily_points)
score_dhikr(total_reps, points_per_repetition, max_daily_points) ==
    Min(Hundred, Points(total_reps * points_per_repetition[1] * 100,
                        points_per_repetition[2] * max_daily_points))

\* the amount at which the sadaqah score saturates (1000.0, and 1000 + 1 in
\* the logarithm)
SadaqahFull == 1000

\* math.log(x, base) for x = n/den, base an integer >= 2: a fraction
MathLog(n, den, base) == <<LogFix(n, den), LogFix(base, 1)>>

\* score_sadaqah(amount, log_scale, log_base, max_daily_points); amount in
\* 1/AmountUnit units
\* min(100.0, (val / denominator) * 100.0) for two fractions (lines 57-60)
ScaledShare(val, denominator) ==
    Min(Hundred, Points(val[1] * denominator[2] * 100, val[2] * denominator[1]))

\* score_sadaqah taking the magnitude of a negative amount instead of 0
score_sadaqah_abs(amount, log_scale, log_base, max_daily_points) ==
    IF Abs(amount) <= 0 THEN 0
    ELSE IF log_scale
         THEN ScaledShare(MathLog(Abs(amount) + AmountUnit, AmountUnit, log_base),
                          MathLog((SadaqahFull + 1) * AmountUnit, AmountUnit, log_base))
         ELSE ScaledShare(<<Abs(amount), AmountUnit>>, <<SadaqahFull, 1>>)

score_sadaqah(amount, log_scale, log_base, max_daily_points) ==
    IF Max(0, amount) <= 0 THEN 0
    ELSE IF log_scale
         THEN ScaledShare(MathLog(Max(0, amount) + AmountUnit, AmountUnit, log_base),
                          MathLog((SadaqahFull + 1) * AmountUnit, AmountUnit, log_base))
         ELSE ScaledShare(<<Max(0, amount), AmountUnit>>, <<SadaqahFull, 1>>)

\* _to_time(tstr): datetime.strptime(tstr, "%H:%M").time() as minutes since
\* midnight, -1 where strptime raises ValueError
ToTime(tstr) ==
    CASE tstr = "21:45" -> 21 * 60 + 45
      [] tstr = "22:30" -> 22 * 60 + 30
      [] tstr = "23:00" -> 23 * 60
      [] tstr = "23:30" -> 23 * 60 + 30
      [] tstr = "00:15" -> 15
      [] OTHER -> 0 - 1

\* the width of each ramp of the sleep score, in hours
SleepRamp == 3

\* the bedtime bonus, in points
BedtimeBonus == 10

\* the core of score_sleep (lines 68-75); hours is never None at a call
SleepCore(hours, ideal_min, ideal_max) ==
    IF hours < ideal_min
    THEN minmax(hours, ideal_min - SleepRamp * HourUnit, ideal_min)
    ELSE IF hours > ideal_max
         THEN inverse_minmax(hours, ideal_max, ideal_max + SleepRamp * HourUnit)
         ELSE Hundred

\* score_sleep(hours, bedtime, ideal_min, ideal_max, bedtime_bonus_before,
\* max_daily_points); bedtime "" stands for both "" and None (both falsy);
\* a ValueError of _to_time is swallowed and leaves the bonus at 0
\* score_sleep capping the result at max_daily_points instead of 100.0
score_sleep_capped(hours, bedtime, ideal_min, ideal_max, bedtime_bonus_before, max_daily_points) ==
    Min(max_daily_points * ScoreScale, SleepCore(hours, ideal_min, ideal_max))

score_sleep(hours, bedtime, ideal_min, ideal_max, bedtime_bonus_before, max_daily_points) ==
    LET core == SleepCore(hours, ideal_min, ideal_max)
        bonus == IF /\ bedtime # ""
                    /\ ToTime(bedtime) >= 0
                    /\ ToTime(bedtime_bonus_before) >= 0
                    /\ ToTime(bedtime) <= ToTime(bedtime_bonus_before)
                 THEN BedtimeBonus * ScoreScale
                 ELSE 0
    IN  Min(Hundred, Max(0, core) + bonus)

\* the neutral screen-time score, in points
ScreenNeutral == 50

\* the weights of the productive ratio and of the distraction penalty
RatioPct == 60

PenaltyPct == 40

\* score_screen_time(app_minutes, cfg): app_minutes maps an app to minutes,
\* cfg has productive_apps, distracting_apps, max_daily_minutes
\* lines 89-96 for the two sums of minutes and the cap max(1.0, max_daily_minutes)
ScreenCombined(prod, dist, cap) ==
    Max(0, Min(Hundred, Points(RatioPct * prod, Max(prod + dist, 1))
                            + Points(PenaltyPct * (cap - Min(cap, dist)), cap)))

score_screen_time(app_minutes, cfg) ==
    IF DOMAIN app_minutes = {} THEN ScreenNeutral * ScoreScale
    ELSE ScreenCombined(
             SumOver(app_minutes, DOMAIN app_minutes \cap cfg.productive_apps),
             SumOver(app_minutes, DOMAIN app_minutes \cap cfg.distracting_apps),
             Max(1, cfg.max_daily_minutes))

\* score_other without the clamp to [0, 100]
score_other_unclamped(good_count, bad_count, good_points, bad_points) ==
    Points((good_count * good_points - bad_count * bad_points + 100) * 100, 200)

\* score_other(good_count, bad_count, good_points, bad_points)
score_other(good_count, bad_count, good_points, bad_points) ==
    LET pos == good_count * good_points
        neg == bad_count * bad_points
        raw == pos - neg
    IN  Max(0, Min(Hundred, Points((raw + 100) * 100, 200)))

\* weighted_baraka_score without the division by the sum of the weights
weighted_baraka_score_raw(components, weights) ==
    Frac(SumOver([k \in DOMAIN weights |-> Get(components, k, 0) * weights[k]],
                 DOMAIN weights),
         WeightUnit)

\* weighted_baraka_score(components, weights): weights in 1/WeightUnit; the
\* result is the exact fraction sum(components.get(k, 0) * w / sw)
weighted_baraka_score(components, weights) ==
    LET total == SumOver(weights, DOMAIN weights)
        sw == IF total = 0 THEN WeightUnit ELSE total
        terms == [k \in DOMAIN weights |-> Get(components, k, 0) * weights[k]]
    IN  Frac(SumOver(terms, DOMAIN weights), sw)

\* ------------------------------------------------------------ the stores
VARIABLES
    logs,           \* data/raw/daily_logs.json: the raw entries, in submission order
    cfg,            \* config/config.json: the config document
    features_csv,   \* data/processed/daily_features.csv
    scores_csv,     \* data/processed/baraka_scores.csv
    outcomes_csv,   \* data/processed/outcomes.csv
    model_report,   \* models/feature_importances.json
    ret,            \* the outcome of the last call
    scenario        \* the calendar days the form offers and the log's capacity

vars == <<logs, cfg, features_csv, scores_csv, outcomes_csv, model_report, ret, scenario>>

NoFile == [exists |-> FALSE, rows |-> <<>>]

File(rows) == [exists |-> TRUE, rows |-> rows]

\* the outcome of a call: a returned value or a raised exception
Returned(op, value) == [op |-> op, raised |-> FALSE, exc |-> "", value |-> value]

Raised(op, exc) == [op |-> op, raised |-> TRUE, exc |-> exc, value |-> <<>>]

OUTCOMES == {"clarity", "focus", "calm", "productivity"}

\* ----------------------------------------- process_barakah.py: features
\* a raw date string: the ISO date of a day, or text no parser accepts
IsoDate(d) == [text |-> "iso", day |-> d]

BadDate == [text |-> "garbage", day |-> 0]

\* pd.to_datetime(...).dt.date.astype(str) on one value (line 31)
Parsable(date) == date.text = "iso"

NormalizeDate(date) == date.day

\* the quran_items lambda (lines 72-74): the ayahs as entered
QuranItems(xs) == SumSeq([i \in 1..Len(xs) |-> Get(xs[i], "ayahs", 0)])

\* split_minutes(m) (lines 84-94)
split_minutes(m, config) ==
    LET st == Get(config, "screen_time", EmptyDict)
        prod_list == Get(st, "productive_apps", {})
        dist_list == Get(st, "distracting_apps", {})
    IN  [prod_minutes |-> SumOver(m, DOMAIN m \cap prod_list),
         dist_minutes |-> SumOver(m, DOMAIN m \cap dist_list)]

\* the row build_features makes of one raw entry (lines 66-103); the mean of
\* the five prayer columns is the fraction count/5, an absent rating is {}
FeatureRow(e, config) ==
    LET split == split_minutes(e.app_minutes, config)
    IN  [date |-> NormalizeDate(e.date),
         prayer_on_time |->
             Frac(Cardinality({p \in PRAYERS : e.prayers[p]}), Cardinality(PRAYERS)),
         quran_items |-> QuranItems(e.quran_recs),
         dhikr_reps |-> e.dhikr_reps,
         sadaqah_amount |-> e.sadaqah_amount,
         sleep_hours |-> e.sleep_hours,
         bedtime |-> e.bedtime,
         other_good |-> e.other_good,
         other_bad |-> e.other_bad,
         prod_minutes |-> split.prod_minutes,
         dist_minutes |-> split.dist_minutes,
         clarity |-> e.clarity,
         focus |-> e.focus,
         calm |-> e.calm,
         productivity |-> e.productivity]

\* sort_values("date") (line 107) sorts with pandas' default kind,
\* "quicksort": numpy's argsort of the date column, an introsort that
\* partitions while a range has more than SMALL_QUICKSORT + 1 elements and
\* insertion-sorts the rest.  It is not a stable sort.
SMALL_QUICKSORT == 16

Swap(t, i, j) == [t EXCEPT ![i] = t[j], ![j] = t[i]]

SwapIfLess(keys, t, i, j) == IF keys[t[i]] < keys[t[j]] THEN Swap(t, i, j) ELSE t

RECURSIVE ScanUp(_, _, _, _, _)
ScanUp(keys, t, pi, pj, vp) ==
    IF pi < pj /\ keys[t[pi]] < vp THEN ScanUp(keys, t, pi + 1, pj, vp) ELSE pi

RECURSIVE ScanDown(_, _, _, _, _)
ScanDown(keys, t, pi, pj, vp) ==
    IF pi < pj /\ vp < keys[t[pj]] THEN ScanDown(keys, t, pi, pj - 1, vp) ELSE pj

RECURSIVE PartitionLoop(_, _, _, _, _)
\* the end of one round of the partition loop: stop, or swap and go on
PartitionStep(keys, t, i, j, vp) ==
    IF i >= j THEN <<t, i>> ELSE PartitionLoop(keys, Swap(t, i, j), i, j, vp)

PartitionDown(keys, t, i, pj, vp) ==
    PartitionStep(keys, t, i, ScanDown(keys, t, i, pj - 1, vp), vp)

PartitionLoop(keys, t, pi, pj, vp) ==
    PartitionDown(keys, t, ScanUp(keys, t, pi + 1, pj, vp), pj, vp)

\* the median of three moved to t[pm]
MedianOfThree(keys, t, pl, pm, pr) ==
    SwapIfLess(keys, SwapIfLess(keys, SwapIfLess(keys, t, pm, pl), pr, pm), pm, pl)

PlacePivot(done, pr) == <<Swap(done[1], done[2], pr - 1), done[2]>>

PartitionAround(keys, t, pl, pm, pr) ==
    PlacePivot(PartitionLoop(keys, Swap(t, pm, pr - 1), pl, pr - 1, keys[t[pm]]), pr)

\* one median-of-three partition of t[pl..pr]: <<the permutation, the pivot's place>>
Partition(keys, t, pl, pr) ==
    PartitionAround(keys, MedianOfThree(keys, t, pl, pl + ((pr - pl) \div 2), pr),
                    pl, pl + ((pr - pl) \div 2), pr)

RECURSIVE Insert(_, _, _, _)
Insert(keys, t, pl, pj) ==
    IF pj > pl /\ keys[t[pj]] < keys[t[pj - 1]]
    THEN Insert(keys, Swap(t, pj, pj - 1), pl, pj - 1)
    ELSE t

RECURSIVE InsertionSort(_, _, _, _, _)
InsertionSort(keys, t, pl, pr, pi) ==
    IF pi > pr THEN t
    ELSE InsertionSort(keys, Insert(keys, t, pl, pi), pl, pr, pi + 1)

RECURSIVE AQuickSort(_, _, _, _)
SortParts(keys, part, pl, pr) ==
    AQuickSort(keys, AQuickSort(keys, part[1], pl, part[2] - 1), part[2] + 1, pr)

AQuickSort(keys, t, pl, pr) ==
    IF pr - pl > SMALL_QUICKSORT
    THEN SortParts(keys, Partition(keys, t, pl, pr), pl, pr)
    ELSE InsertionSort(keys, t, pl, pr, pl + 1)

\* the rows in the order sort_values("date") leaves them
SortValues(rows) ==
    LET keys == [i \in 1..Len(rows) |-> rows[i].date]
        order == AQuickSort(keys, [i \in 1..Len(rows) |-> i], 1, Len(rows))
    IN  [i \in 1..Len(rows) |-> rows[order[i]]]

\* SelectSeq with the index: the rows whose index passes keep
RECURSIVE KeepRows(_, _, _)
KeepRows(rows, keep, i) ==
    IF i > Len(rows) THEN <<>>
    ELSE (IF keep[i] THEN <<rows[i]>> ELSE <<>>) \o KeepRows(rows, keep, i + 1)

\* drop_duplicates("date", keep="last") (line 108)
DropDuplicates(rows) ==
    KeepRows(rows,
             [i \in 1..Len(rows) |->
                 \A j \in (i + 1)..Len(rows) : rows[j].date # rows[i].date],
             1)

\* build_features without the early return for an empty log: the date column
\* of an empty frame is missing
build_features_unguarded(entries, config) ==
    IF entries = <<>> \/ \E i \in 1..Len(entries) : ~Parsable(entries[i].date)
    THEN [out |-> Raised("build_features", IF entries = <<>> THEN "KeyError" ELSE "ValueError"),
          saved |-> FALSE]
    ELSE [out |-> Returned("build_features",
                           DropDuplicates(SortValues(
                               [i \in 1..Len(entries) |-> FeatureRow(entries[i], config)]))),
          saved |-> TRUE]

\* build_features() (lines 23-113) on the stores' contents: the call's
\* outcome and whether daily_features.csv was written
build_features(entries, config) ==
    IF entries = <<>>
    THEN [out |-> Returned("build_features", <<>>), saved |-> FALSE]
    ELSE IF \E i \in 1..Len(entries) : ~Parsable(entries[i].date)
    THEN [out |-> Raised("build_features", "ValueError"), saved |-> FALSE]
    ELSE [out |-> Returned("build_features",
                           DropDuplicates(SortValues(
                               [i \in 1..Len(entries) |-> FeatureRow(entries[i], config)]))),
          saved |-> TRUE]

\* ------------------------------------- calculate_barakah.py: the scores
COMPONENTS == {"prayer_on_time", "quran_recitation", "dhikr", "sadaqah", "sleep",
               "screen_time", "other_good", "other_bad"}

\* calculate_score_components(row, cfg) (lines 64-141), for a config that
\* has every section it subscripts
calculate_score_components(row, config) ==
    LET screen_time_data ==
            [k \in {"productive", "distracting"} |->
                IF k = "productive" THEN row.prod_minutes ELSE row.dist_minutes]
        screen_time_config ==
            [productive_apps |-> {"productive"},
             distracting_apps |-> {"distracting"},
             max_daily_minutes |-> config.screen_time.max_daily_minutes]
    IN  [c \in COMPONENTS |->
            CASE c = "prayer_on_time" ->
                    Points(row.prayer_on_time[1] * 100, row.prayer_on_time[2])
              [] c = "quran_recitation" ->
                    Min(Hundred,
                        Points(row.quran_items * 100, config.quran.max_daily_points))
              [] c = "dhikr" ->
                    Min(Hundred,
                        Points(row.dhikr_reps * config.dhikr.points_per_repetition[1] * 100,
                               config.dhikr.points_per_repetition[2]
                                   * config.dhikr.max_daily_points))
              [] c = "sadaqah" ->
                    score_sadaqah(row.sadaqah_amount, config.sadaqah.log_scale,
                                  config.sadaqah.log_base,
                                  config.sadaqah.max_daily_points)
              [] c = "sleep" ->
                    score_sleep(row.sleep_hours, row.bedtime,
                                config.sleep.ideal_min_hours,
                                config.sleep.ideal_max_hours,
                                config.sleep.bedtime_bonus_before,
                                config.sleep.max_daily_points)
              [] c = "screen_time" ->
                    score_screen_time(screen_time_data, screen_time_config)
              [] c = "other_good" ->
                    score_other(row.other_good, 0, config.other.good_points,
                                config.other.bad_points)
              [] OTHER ->
                    score_other(0, row.other_bad, config.other.good_points,
                                config.other.bad_points)]

\* the config sections compute_scores subscripts for a row, in the order it
\* reaches them (lines 81-127, then line 38)
Sections == <<"quran", "dhikr", "sadaqah", "sleep", "screen_time", "other", "weights">>

MissingSections(config) == {i \in 1..Len(Sections) : Sections[i] \notin DOMAIN config}

\* one record of the score table (lines 41-49); the component columns are
\* kept together under "components"
ScoreRecord(row, components, score) ==
    [date |-> row.date, components |-> components, baraka_score |-> score,
     clarity |-> row.clarity, focus |-> row.focus, calm |-> row.calm,
     productivity |-> row.productivity]

Scored(row, components, config) ==
    ScoreRecord(row, components, weighted_baraka_score(components, config.weights))

\* the body of the loop over the feature rows (lines 33-49)
ScoreRow(row, config) == Scored(row, calculate_score_components(row, config), config)

\* the outcomes projection (line 58)
OutcomeRow(r) ==
    [date |-> r.date, clarity |-> r.clarity, focus |-> r.focus, calm |-> r.calm,
     productivity |-> r.productivity]

\* compute_scores() (lines 12-61) on the stores' contents: the call's
\* outcome, what build_features returned, which files were written and how
\* often weighted_baraka_score was called
ScoresFrom(bf, config) ==
    IF bf.out.raised
    THEN [out |-> Raised("compute_scores", bf.out.exc), feat |-> <<>>,
          features_saved |-> FALSE, scores_saved |-> FALSE, aggregations |-> 0]
    ELSE IF bf.out.value = <<>>
    THEN [out |-> Returned("compute_scores", <<>>), feat |-> <<>>,
          features_saved |-> bf.saved, scores_saved |-> FALSE, aggregations |-> 0]
    ELSE IF MissingSections(config) # {}
    THEN [out |-> Raised("compute_scores", "KeyError"), feat |-> bf.out.value,
          features_saved |-> bf.saved, scores_saved |-> FALSE, aggregations |-> 0]
    ELSE [out |-> Returned("compute_scores",
                           SortValues([i \in 1..Len(bf.out.value) |->
                                          ScoreRow(bf.out.value[i], config)])),
          feat |-> bf.out.value, features_saved |-> bf.saved, scores_saved |-> TRUE,
          aggregations |-> Len(bf.out.value)]

compute_scores(entries, config) == ScoresFrom(build_features(entries, config), config)

\* ------------------------------------------- barakah_model.py: analyzer
\* the fewest outcome-bearing rows a model is fitted on (line 35)
MinSamples == 10

\* pd.read_csv(path): the columns of the feature table and, of them, the
\* ones df.corr(numeric_only=True) correlates (line 28) -- computed before
\* the avg_outcome column is added (line 31)
FeatureColumns == {"date", "prayer_on_time", "quran_items", "dhikr_reps",
                   "sadaqah_amount", "sleep_hours", "bedtime", "other_good",
                   "other_bad", "prod_minutes", "dist_minutes"} \cup OUTCOMES

CorrColumns == FeatureColumns \ {"date", "bedtime"}

\* the rows that keep an avg_outcome after dropna (lines 31-32)
WithOutcome(rows) == {i \in 1..Len(rows) : \E k \in OUTCOMES : rows[i][k] # {}}

\* corr[column].to_dict(): the column's correlations, KeyError when corr has
\* no such column; the numbers themselves are not modelled
CorrOf(column) ==
    IF column \in CorrColumns
    THEN [raised |-> FALSE, value |-> [c \in CorrColumns |-> "r"]]
    ELSE [raised |-> TRUE, value |-> EmptyDict]

\* train_and_analyze() (lines 11-66) on daily_features.csv: the call's
\* outcome and whether save_results wrote the report
train_and_analyze(file) ==
    IF ~file.exists
    THEN [out |-> Returned("train_and_analyze", [status |-> "no_data"]),
          saved |-> FALSE]
    ELSE LET n == Cardinality(WithOutcome(file.rows))
             corr == CorrOf("avg_outcome")
         IN  IF n < MinSamples
             THEN IF corr.raised
                  THEN [out |-> Raised("train_and_analyze", "KeyError"),
                        saved |-> FALSE]
                  ELSE [out |-> Returned("train_and_analyze",
                                         [status |-> "insufficient_data",
                                          correlations |-> corr.value]),
                        saved |-> TRUE]
             ELSE IF corr.raised
                  THEN [out |-> Raised("train_and_analyze", "KeyError"),
                        saved |-> FALSE]
                  ELSE [out |-> Returned("train_and_analyze",
                                         [status |-> "ok",
                                          cv_r2_mean |-> "r2", cv_r2_std |-> "r2",
                                          feature_importances |-> "importances",
                                          correlations_with_outcome |-> corr.value,
                                          n_samples |-> n]),
                        saved |-> TRUE]

\* ------------------------------------------------------ bounded inputs
MaxLog == 2
Days == {1, 2}
DiaryLen == 17
DiaryExtra == 1

Dict2(k1, v1, k2, v2) == [k \in {k1, k2} |-> IF k = k1 THEN v1 ELSE v2]

Rec(surah, ayahs) == [surah |-> surah, ayahs |-> ayahs]

\* days of activity, as the log form (main_barakah.py lines 129-148)
\* or a hand-written log file records them
ProfileRest ==
    [prayers |-> [p \in PRAYERS |-> FALSE], quran_recs |-> <<>>, dhikr_reps |-> 0,
     sadaqah_amount |-> 0, sleep_hours |-> 0, bedtime |-> "",
     app_minutes |-> EmptyDict, other_good |-> 0, other_bad |-> 0,
     clarity |-> {3}, focus |-> {3}, calm |-> {3}, productivity |-> {3}]

ProfileFull ==
    [prayers |-> [p \in PRAYERS |-> TRUE],
     quran_recs |-> <<Rec("Al-Ikhlas", 0), Rec("Al-Kahf", 10)>>, dhikr_reps |-> 100,
     sadaqah_amount |-> 10 * AmountUnit,
     sleep_hours |-> 7 * HourUnit + (HourUnit \div 2), bedtime |-> "22:30",
     app_minutes |-> Dict2("Quran", 30, "YouTube", 60),
     other_good |-> 2, other_bad |-> 1,
     clarity |-> {4}, focus |-> {5}, calm |-> {4}, productivity |-> {4}]

ProfilePartial ==
    [prayers |-> [p \in PRAYERS |-> p \in {"Fajr", "Isha"}],
     quran_recs |-> <<Rec("Ar-Rahmaan", 0)>>, dhikr_reps |-> 33,
     sadaqah_amount |-> 1, sleep_hours |-> 5 * HourUnit, bedtime |-> "late",
     app_minutes |-> Dict2("Chess", 20, "TikTok", 400),
     other_good |-> 0, other_bad |-> 3,
     clarity |-> {}, focus |-> {}, calm |-> {}, productivity |-> {}]

ProfileQuiet ==
    [prayers |-> [p \in PRAYERS |-> p \in {"Fajr", "Dhuhr", "Asr"}],
     quran_recs |-> <<Rec("Al-Fatiha", 0)>>, dhikr_reps |-> 0,
     sadaqah_amount |-> (SadaqahFull + 1) * AmountUnit,
     sleep_hours |-> 7 * HourUnit, bedtime |-> "",
     app_minutes |-> EmptyDict, other_good |-> 1, other_bad |-> 0,
     clarity |-> {2}, focus |-> {}, calm |-> {}, productivity |-> {}]

Profiles == {ProfileRest, ProfileFull, ProfilePartial}

Entry(date, profile) == [k \in {"date"} |-> date] @@ profile

\* the entries a scenario can submit: each profile on each of its days, and
\* one entry whose date does not parse
Entries(sc) ==
    {Entry(IsoDate(i), p) : i \in sc.days, p \in Profiles}
        \cup {Entry(BadDate, ProfileRest)}

\* config documents: the shipped shape, an edited one, one with every
\* weight at zero, and the empty document read_config returns for no file;
\* the stores hold the first, the second or the last
DefaultCfg ==
    [weights |-> [c \in COMPONENTS |->
                     CASE c = "prayer_on_time" -> 30
                       [] c = "quran_recitation" -> 20
                       [] c \in {"other_good", "other_bad"} -> 5
                       [] OTHER -> 10],
     quran |-> [points_per_ayah |-> <<1, 1>>, max_daily_points |-> 100],
     dhikr |-> [points_per_repetition |-> <<1, 10>>, max_daily_points |-> 100],
     sadaqah |-> [log_scale |-> TRUE, log_base |-> 10, max_daily_points |-> 100],
     sleep |-> [ideal_min_hours |-> 7 * HourUnit,
                ideal_max_hours |-> 8 * HourUnit + (HourUnit \div 2),
                bedtime_bonus_before |-> "23:00", max_daily_points |-> 100],
     screen_time |-> [productive_apps |-> {"Quran", "Docs"},
                      distracting_apps |-> {"YouTube", "TikTok"},
                      max_daily_minutes |-> 180],
     other |-> [good_points |-> 10, bad_points |-> 10]]

EditedCfg ==
    [weights |-> [c \in COMPONENTS \cup {"tahajjud"} |->
                     CASE c = "prayer_on_time" -> 50
                       [] c = "tahajjud" -> 25
                       [] c \in {"sleep", "screen_time"} -> 0
                       [] OTHER -> 15],
     quran |-> [points_per_ayah |-> <<2, 1>>, max_daily_points |-> 50],
     dhikr |-> [points_per_repetition |-> <<1, 1>>, max_daily_points |-> 300],
     sadaqah |-> [log_scale |-> FALSE, log_base |-> 2, max_daily_points |-> 100],
     sleep |-> [ideal_min_hours |-> 6 * HourUnit, ideal_max_hours |-> 7 * HourUnit,
                bedtime_bonus_before |-> "soon", max_daily_points |-> 100],
     screen_time |-> [productive_apps |-> {"Quran", "YouTube"},
                      distracting_apps |-> {"YouTube", "Chess"},
                      max_daily_minutes |-> 60],
     other |-> [good_points |-> 25, bad_points |-> 40]]

ZeroCfg == [DefaultCfg EXCEPT !.weights = [c \in COMPONENTS |-> 0]]

EmptyCfg == EmptyDict

Configs == {DefaultCfg, EditedCfg, EmptyCfg}

\* a diary of DiaryLen days, one entry a day, submitted in date order
Diary ==
    [i \in 1..DiaryLen |->
        Entry(IsoDate(i), IF i % 2 = 1 THEN ProfileFull ELSE ProfileRest)]

\* ------------------------------------------------------------ operations
\* render_log_day_page, "Save Day" (main_barakah.py lines 128-156):
\* append_daily_log(entry, LOG_PATH)
SaveDay ==
    /\ Len(logs) < scenario.capacity
    /\ \E e \in Entries(scenario) :
           /\ logs' = Append(logs, e)
           /\ ret' = Returned("append_daily_log", e.date)
    /\ UNCHANGED <<cfg, features_csv, scores_csv, outcomes_csv, model_report, scenario>>

\* write_config(new_cfg) / set_cfg(cfg): the config document is replaced
WriteConfig ==
    /\ \E c \in Configs \ {cfg} :
           /\ cfg' = c
           /\ ret' = Returned("write_config", <<>>)
    /\ UNCHANGED <<logs, features_csv, scores_csv, outcomes_csv, model_report, scenario>>

\* process_barakah.py run as a script: build_features()
FeaturesBuilt(r) ==
    /\ ret' = r.out
    /\ features_csv' = IF r.saved THEN File(r.out.value) ELSE features_csv
    /\ UNCHANGED <<logs, cfg, scores_csv, outcomes_csv, model_report, scenario>>

BuildFeatures == FeaturesBuilt(build_features(logs, cfg))

\* what a run of compute_scores leaves in the three tables
ScoresStored(r) ==
    /\ features_csv' = IF r.features_saved THEN File(r.feat) ELSE features_csv
    /\ scores_csv' = IF r.scores_saved THEN File(r.out.value) ELSE scores_csv
    /\ outcomes_csv' =
           IF r.scores_saved
           THEN File([i \in 1..Len(r.out.value) |-> OutcomeRow(r.out.value[i])])
           ELSE outcomes_csv

\* the call's outcome, with the number of weighted_baraka_score calls of the run
ScoresComputed(r) ==
    /\ ret' = r.out @@ [aggregations |-> r.aggregations]
    /\ ScoresStored(r)
    /\ UNCHANGED <<logs, cfg, model_report, scenario>>

\* the dashboard, the data page, or calculate_barakah.py run as a script:
\* compute_scores()
ComputeScores == ScoresComputed(compute_scores(logs, cfg))

\* render_insights_page (main_barakah.py lines 200-251): train_and_analyze()
\* inside the page's try; compute_scores() (line 227) runs only for a
\* returned status other than no_data and insufficient_data
Analyzed(r) ==
    /\ ret' = r.out
    /\ model_report' = IF r.saved THEN File(r.out.value) ELSE model_report
    /\ IF ~r.out.raised /\ r.out.value.status \notin {"no_data", "insufficient_data"}
       THEN ScoresStored(compute_scores(logs, cfg))
       ELSE UNCHANGED <<features_csv, scores_csv, outcomes_csv>>
    /\ UNCHANGED <<logs, cfg, scenario>>

InsightsPage == Analyzed(train_and_analyze(features_csv))

\* barakah_model.py run as a script (lines 156-168): an exception of
\* train_and_analyze is caught there and saved as an error report
ScriptTrained(r) ==
    /\ ret' = r.out
    /\ model_report' =
           IF r.out.raised
           THEN File([status |-> "error", error_message |-> r.out.exc])
           ELSE IF r.saved THEN File(r.out.value) ELSE model_report
    /\ UNCHANGED <<logs, cfg, features_csv, scores_csv, outcomes_csv, scenario>>

TrainScript == ScriptTrained(train_and_analyze(features_csv))

Init ==
    /\ logs = <<>>
    /\ cfg = DefaultCfg
    /\ features_csv = NoFile
    /\ scores_csv = NoFile
    /\ outcomes_csv = NoFile
    /\ model_report = NoFile
    /\ ret = Returned("ensure_dirs", <<>>)
    /\ scenario = [days |-> Days, capacity |-> MaxLog]

Next ==
    \/ SaveDay
    \/ WriteConfig
    \/ BuildFeatures
    \/ ComputeScores
    \/ InsightsPage
    \/ TrainScript

Spec == Init /\ [][Next]_vars

\* the same program started on a diary already DiaryLen days long
InitDiary ==
    /\ logs = Diary
    /\ cfg = DefaultCfg
    /\ features_csv = NoFile
    /\ scores_csv = NoFile
    /\ outcomes_csv = NoFile
    /\ model_report = NoFile
    /\ ret = Returned("ensure_dirs", <<>>)
    /\ scenario = [days |-> 1..DiaryLen, capacity |-> DiaryLen + DiaryExtra]

SpecDiary == InitDiary /\ [][Next]_vars

\* ------------------------------------------- the scorers called directly
\* the largest inputs the scorers are called with
HugeCount == 50000
HugeAmount == 10000
HugeHabits == 1000
HugeMinutes == 100000
MaxScale == 3

\* the outcome of a direct call of a pure function, with its arguments
Called(op, args, value) ==
    [op |-> op, raised |-> FALSE, exc |-> "", value |-> value, args |-> args]

Counts == {0, 1, 33, 100, 5000, HugeCount}

Rates == {<<1, 1>>, <<2, 1>>, <<1, 10>>}

DailyMaxima == {50, 100}

\* amounts in 1/AmountUnit units, some negative
Amounts ==
    {0 - 10 * AmountUnit, 0 - 1, 0, 1, AmountUnit, 10 * AmountUnit,
     500 * AmountUnit, SadaqahFull * AmountUnit - 1, SadaqahFull * AmountUnit,
     (SadaqahFull + 1) * AmountUnit, HugeAmount * AmountUnit}

LogBases == {2, 10}

Hours == (3 * HourUnit)..(10 * HourUnit) \cup {0, 14 * HourUnit, 100 * HourUnit}

Bedtimes == {"", "22:30", "23:30", "late"}

\* <<ideal_min_hours, ideal_max_hours>>
SleepWindows ==
    {<<7 * HourUnit, 8 * HourUnit + (HourUnit \div 2)>>, <<6 * HourUnit, 6 * HourUnit>>,
     <<5 * HourUnit, 9 * HourUnit>>}

\* <<bedtime_bonus_before, max_daily_points>>
SleepPolicies == {<<"23:00", 100>>, <<"soon", 50>>}

AppMinutes ==
    {EmptyDict, Dict2("Quran", 30, "YouTube", 60), Dict2("Chess", 20, "TikTok", 400),
     Dict2("Quran", 0, "YouTube", 0), Dict2("Docs", HugeMinutes, "TikTok", HugeMinutes),
     Dict2("Docs", 45, "Quran", 15), Dict2("YouTube", HugeMinutes, "Chess", 1)}

ScreenConfigs == {DefaultCfg.screen_time, EditedCfg.screen_time,
                  [DefaultCfg.screen_time EXCEPT !.max_daily_minutes = 0]}

Recitations ==
    {<<>>, <<Rec("Al-Ikhlas", 0)>>, <<Rec("Ar-Rahmaan", 0)>>,
     <<Rec("Al-Ikhlas", 0), Rec("Al-Kahf", 10)>>, <<Rec("Al-Kahf", 0), Rec("Al-Fatiha", 0)>>,
     <<Rec("Al-Kahf", HugeCount)>>}

HabitCounts == {0, 1, 3, 20, HugeHabits}

HabitPoints == {<<10, 10>>, <<25, 40>>, <<0, 5>>}

\* component-score and weight mappings for weighted_baraka_score
WeightKeys == {"prayer_on_time", "sleep", "tahajjud"}

WeightMaps == [WeightKeys -> {0, 10, 60}] \cup {EmptyDict, DefaultCfg.weights}

ComponentMaps ==
    [{"prayer_on_time", "sleep"} -> {0, 37 * ScoreScale, Hundred}]
        \cup {EmptyDict, [c \in COMPONENTS |-> Hundred]}

\* a day of extreme values
ProfileExtreme ==
    [prayers |-> [p \in PRAYERS |-> TRUE],
     quran_recs |-> <<Rec("Al-Kahf", HugeCount)>>, dhikr_reps |-> HugeCount,
     sadaqah_amount |-> HugeAmount * AmountUnit,
     sleep_hours |-> 100 * HourUnit, bedtime |-> "21:45",
     app_minutes |-> Dict2("Docs", HugeMinutes, "TikTok", HugeMinutes),
     other_good |-> HugeHabits, other_bad |-> HugeHabits,
     clarity |-> {5}, focus |-> {5}, calm |-> {5}, productivity |-> {5}]

AllProfiles == Profiles \cup {ProfileQuiet, ProfileExtreme}

\* the profiles with every sleep duration the form accepts and no bedtime
SleepProfiles == {[ProfileQuiet EXCEPT !.sleep_hours = h] : h \in Hours}

\* configs with every section
FullConfigs == {DefaultCfg, EditedCfg, ZeroCfg}

CallScorePrayer ==
    /\ \E prayers \in [PRAYERS -> {0, 1}] \cup {EmptyDict} :
           ret' = Called("score_prayer", [prayers |-> prayers], score_prayer(prayers))
    /\ UNCHANGED <<logs, cfg, features_csv, scores_csv, outcomes_csv, model_report, scenario>>

CallScoreQuran ==
    /\ \E recitations \in Recitations, rate \in Rates, max \in DailyMaxima :
           ret' = Called("score_quran",
                         [recitations |-> recitations, base_points_per_ayah |-> rate,
                          max_daily_points |-> max],
                         score_quran(recitations, rate, max))
    /\ UNCHANGED <<logs, cfg, features_csv, scores_csv, outcomes_csv, model_report, scenario>>

CallScoreDhikr ==
    /\ \E total_reps \in Counts, rate \in Rates, max \in DailyMaxima :
           ret' = Called("score_dhikr",
                         [total_reps |-> total_reps, points_per_repetition |-> rate,
                          max_daily_points |-> max],
                         score_dhikr(total_reps, rate, max))
    /\ UNCHANGED <<logs, cfg, features_csv, scores_csv, outcomes_csv, model_report, scenario>>

CallScoreSadaqah ==
    /\ \E amount \in Amounts, log_scale \in BOOLEAN, log_base \in LogBases :
           ret' = Called("score_sadaqah",
                         [amount |-> amount, log_scale |-> log_scale,
                          log_base |-> log_base, max_daily_points |-> 100],
                         score_sadaqah(amount, log_scale, log_base, 100))
    /\ UNCHANGED <<logs, cfg, features_csv, scores_csv, outcomes_csv, model_report, scenario>>

CallScoreSleep ==
    /\ \E hours \in Hours, bedtime \in Bedtimes, w \in SleepWindows, pol \in SleepPolicies :
           ret' = Called("score_sleep",
                         [hours |-> hours, bedtime |-> bedtime, ideal_min |-> w[1],
                          ideal_max |-> w[2], bedtime_bonus_before |-> pol[1],
                          max_daily_points |-> pol[2]],
                         score_sleep(hours, bedtime, w[1], w[2], pol[1], pol[2]))
    /\ UNCHANGED <<logs, cfg, features_csv, scores_csv, outcomes_csv, model_report, scenario>>

CallScoreScreenTime ==
    /\ \E app_minutes \in AppMinutes, c \in ScreenConfigs :
           ret' = Called("score_screen_time", [app_minutes |-> app_minutes, cfg |-> c],
                         score_screen_time(app_minutes, c))
    /\ UNCHANGED <<logs, cfg, features_csv, scores_csv, outcomes_csv, model_report, scenario>>

CallScoreOther ==
    /\ \E good_count \in HabitCounts, bad_count \in HabitCounts, pts \in HabitPoints :
           ret' = Called("score_other",
                         [good_count |-> good_count, bad_count |-> bad_count,
                          good_points |-> pts[1], bad_points |-> pts[2]],
                         score_other(good_count, bad_count, pts[1], pts[2]))
    /\ UNCHANGED <<logs, cfg, features_csv, scores_csv, outcomes_csv, model_report, scenario>>

CallWeightedBarakaScore ==
    /\ \E components \in ComponentMaps, weights \in WeightMaps :
           ret' = Called("weighted_baraka_score",
                         [components |-> components, weights |-> weights],
                         weighted_baraka_score(components, weights))
    /\ UNCHANGED <<logs, cfg, features_csv, scores_csv, outcomes_csv, model_report, scenario>>

\* calculate_score_components on the feature row of one raw entry
CallScoreComponents ==
    /\ \E p \in AllProfiles \cup SleepProfiles, c \in FullConfigs :
           ret' = Called("calculate_score_components",
                         [entry |-> Entry(IsoDate(1), p),
                          row |-> FeatureRow(Entry(IsoDate(1), p), c), cfg |-> c],
                         calculate_score_components(FeatureRow(Entry(IsoDate(1), p), c), c))
    /\ UNCHANGED <<logs, cfg, features_csv, scores_csv, outcomes_csv, model_report, scenario>>

\* the body of compute_scores' loop on the feature row of one raw entry
CallScoreRow ==
    /\ \E p \in AllProfiles, c \in FullConfigs :
           ret' = Called("score_row",
                         [row |-> FeatureRow(Entry(IsoDate(1), p), c), cfg |-> c],
                         ScoreRow(FeatureRow(Entry(IsoDate(1), p), c), c))
    /\ UNCHANGED <<logs, cfg, features_csv, scores_csv, outcomes_csv, model_report, scenario>>

NextScorers ==
    \/ CallScorePrayer
    \/ CallScoreQuran
    \/ CallScoreDhikr
    \/ CallScoreSadaqah
    \/ CallScoreSleep
    \/ CallScoreScreenTime
    \/ CallScoreOther
    \/ CallWeightedBarakaScore
    \/ CallScoreComponents
    \/ CallScoreRow

SpecScorers == Init /\ [][NextScorers]_vars

\* ---------------------------------------------------------- properties
\* the last entry of the log for a normalized date
LastFor(date) ==
    CHOOSE j \in 1..Len(logs) :
        /\ NormalizeDate(logs[j].date) = date
        /\ \A k \in (j + 1)..Len(logs) : NormalizeDate(logs[k].date) # date

EntriesFor(date) == {j \in 1..Len(logs) : NormalizeDate(logs[j].date) = date}

\* C1: for every date that two or more entries of the log share, the row
\* build_features returns for it is the feature row of the entry submitted
\* last, taken alone.
C1_LastSubmissionWins ==
    (ret.op = "build_features" /\ ~ret.raised) =>
        \A i \in 1..Len(ret.value) :
            Cardinality(EntriesFor(ret.value[i].date)) >= 2 =>
                ret.value[i] = FeatureRow(logs[LastFor(ret.value[i].date)], cfg)

ScaledWeights(w, p, q) == [k \in DOMAIN w |-> (w[k] * p) \div q]

Scalable(w, p, q) == \A k \in DOMAIN w : (w[k] * p) % q = 0

\* C2: for every component mapping, every weight mapping with non-negative
\* weights and every positive constant k = p/q, the composite computed with
\* all weights multiplied by k equals the composite with the original weights.
C2_ScaleInvariant ==
    ret.op = "weighted_baraka_score" =>
        \A p \in 1..MaxScale, q \in 1..MaxScale :
            Scalable(ret.args.weights, p, q) =>
                weighted_baraka_score(ret.args.components,
                                      ScaledWeights(ret.args.weights, p, q))
                    = ret.value

\* a composite of positive weights and scores, with a scaling by 3/2 at hand
C2_Witness ==
    /\ ret.op = "weighted_baraka_score"
    /\ ret.value[1] > 0
    /\ ret.value # <<100 * ScoreScale, 1>>
    /\ Scalable(ret.args.weights, 3, 2)
    /\ \E k \in DOMAIN ret.args.weights : ret.args.weights[k] = 0

Scorers == {"score_prayer", "score_quran", "score_dhikr", "score_sadaqah",
            "score_sleep", "score_screen_time", "score_other"}

\* C3: every component score the scorers and calculate_score_components
\* produce lies in [0, 100], for every non-negative feature value, however
\* large, and every valid policy config.
C3_ComponentsBounded ==
    /\ ret.op \in Scorers => ret.value \in 0..Hundred
    /\ ret.op = "calculate_score_components" =>
           \A c \in COMPONENTS : ret.value[c] \in 0..Hundred

\* the components of the day of extreme values
C3_Witness ==
    /\ ret.op = "calculate_score_components"
    /\ ret.args.row.dhikr_reps = HugeCount
    /\ ret.args.row.other_bad = HugeHabits
    /\ ret.value["dhikr"] = Hundred
    /\ ret.value["other_bad"] = 0

\* C4: for every day whose raw entries have an empty app-minutes mapping, the
\* screen_time component compute_scores gives the day is exactly 50, and
\* score_screen_time returns exactly 50 for an empty mapping.
C4_EmptyAppsNeutral ==
    /\ \A c \in ScreenConfigs : score_screen_time(EmptyDict, c) = ScreenNeutral * ScoreScale
    /\ (ret.op = "compute_scores" /\ ~ret.raised) =>
           \A i \in 1..Len(ret.value) :
               (\A j \in EntriesFor(ret.value[i].date) :
                    DOMAIN logs[j].app_minutes = {})
                   => ret.value[i].components["screen_time"] = ScreenNeutral * ScoreScale

\* the recitation total of an entry with every whole-surah item resolved
ResolvedTotal(e) ==
    SumSeq([i \in 1..Len(e.quran_recs) |-> ResolveAyat(e.quran_recs[i])])

\* C5: in the feature table, a day's recitation total counts an item of a
\* known surah with ayah count 0 as the surah's total from the reference
\* table, and an item of an unknown surah with ayah count 0 as 0.
C5_WholeSurahResolved ==
    (ret.op = "build_features" /\ ~ret.raised) =>
        \A i \in 1..Len(ret.value) :
            \E j \in EntriesFor(ret.value[i].date) :
                ret.value[i].quran_items = ResolvedTotal(logs[j])

ModelFitFields == {"cv_r2_mean", "cv_r2_std", "feature_importances", "n_samples"}

\* C6: when the feature table exists and fewer than 10 of its rows have an
\* outcome rating, train_and_analyze returns and persists a report with
\* status insufficient_data, a correlations mapping and no model-fit field.
C6_InsufficientData ==
    (/\ ret.op = "train_and_analyze"
     /\ features_csv.exists
     /\ Cardinality(WithOutcome(features_csv.rows)) < MinSamples) =>
        /\ ~ret.raised
        /\ ret.value.status = "insufficient_data"
        /\ "correlations" \in DOMAIN ret.value
        /\ DOMAIN ret.value \cap ModelFitFields = {}
        /\ model_report = File(ret.value)

\* C7: every call of train_and_analyze returns a report whose status is
\* no_data, insufficient_data, ok or error; no exception reaches the caller.
C7_FailuresCaught ==
    ret.op = "train_and_analyze" =>
        /\ ~ret.raised
        /\ ret.value.status \in {"no_data", "insufficient_data", "ok", "error"}

\* C8: build_features and compute_scores never raise, whatever the log and
\* the config document hold.
C8_Total == ret.op \in {"build_features", "compute_scores"} => ~ret.raised

\* C9: with no bedtime, score_sleep returns exactly 100 for every hours value
\* in [ideal_min, ideal_max], bounds included, and so does the sleep component
\* calculate_score_components gives a day with an empty bedtime.
C9_IdealSleepFull ==
    /\ (/\ ret.op = "score_sleep"
        /\ ret.args.bedtime = ""
        /\ ret.args.ideal_min <= ret.args.hours
        /\ ret.args.hours <= ret.args.ideal_max) => ret.value = Hundred
    /\ (/\ ret.op = "calculate_score_components"
        /\ ret.args.entry.bedtime = ""
        /\ ret.args.cfg.sleep.ideal_min_hours <= ret.args.entry.sleep_hours
        /\ ret.args.entry.sleep_hours <= ret.args.cfg.sleep.ideal_max_hours)
           => ret.value["sleep"] = Hundred

\* a day with no bedtime that slept exactly ideal_max_hours
C9_Witness ==
    /\ ret.op = "calculate_score_components"
    /\ ret.args.entry.bedtime = ""
    /\ ret.args.entry.sleep_hours = ret.args.cfg.sleep.ideal_max_hours
    /\ ret.args.cfg.sleep.ideal_min_hours < ret.args.cfg.sleep.ideal_max_hours
    /\ ret.value["sleep"] = Hundred

SamePolicy(a, b) ==
    /\ a.log_scale = b.log_scale
    /\ a.log_base = b.log_base
    /\ a.max_daily_points = b.max_daily_points

\* C10: with the policy held fixed, score_sadaqah is non-decreasing in the
\* amount, in the log-scaled and in the linear mode; an amount <= 0 scores 0
\* and no score exceeds 100.
C10_SadaqahMonotone ==
    [][/\ ret'.op = "score_sadaqah" =>
              /\ ret'.value <= Hundred
              /\ ret'.args.amount <= 0 => ret'.value = 0
       /\ (/\ ret.op = "score_sadaqah"
           /\ ret'.op = "score_sadaqah"
           /\ SamePolicy(ret.args, ret'.args)
           /\ ret.args.amount <= ret'.args.amount) => ret.value <= ret'.value]_vars

\* a log-scaled score strictly between 0 and 100
C10_Witness ==
    /\ ret.op = "score_sadaqah"
    /\ ret.args.log_scale
    /\ ret.value > 0
    /\ ret.value < Hundred

\* C11: when the log is empty, build_features returns an empty table,
\* compute_scores returns an empty score table, and the run makes no call of
\* weighted_baraka_score.
C11_EmptyLogEmptyTables ==
    /\ (ret.op = "build_features" /\ logs = <<>>) =>
           (~ret.raised /\ ret.value = <<>>)
    /\ (ret.op = "compute_scores" /\ logs = <<>>) =>
           (~ret.raised /\ ret.value = <<>> /\ ret.aggregations = 0)

\* compute_scores has run on an empty log, with the empty config document
C11_Witness ==
    /\ ret.op = "compute_scores"
    /\ logs = <<>>
    /\ cfg = EmptyCfg
    /\ ret.value = <<>>
    /\ ret.aggregations = 0

\* a fraction <<num, den>> of points between 0 and 100
InPoints(x) == 0 <= x[1] /\ x[1] <= Hundred * x[2]

\* C12: the composite baraka_score lies in [0, 100] whenever the weights are
\* non-negative and the component scores lie in [0, 100], also when the
\* weights sum to zero and when a weight key has no component.
C12_CompositeBounded ==
    /\ ret.op = "weighted_baraka_score" => InPoints(ret.value)
    /\ ret.op = "score_row" => InPoints(ret.value.baraka_score)

\* a composite of full components under a weight for a key with no component
C12_Witness ==
    /\ ret.op = "weighted_baraka_score"
    /\ "tahajjud" \in DOMAIN ret.args.weights
    /\ ret.args.weights["tahajjud"] = 60
    /\ ret.args.weights["prayer_on_time"] = 60
    /\ ret.args.components = [c \in COMPONENTS |-> Hundred]
    /\ ret.value[1] > 0
    /\ InPoints(ret.value)

\* the normalized dates present in the log
LogDates == {NormalizeDate(logs[j].date) : j \in {k \in 1..Len(logs) : Parsable(logs[k].date)}}

\* rows in strictly ascending date order, one for each date of the log
OneRowPerDate(rows) ==
    /\ {rows[i].date : i \in 1..Len(rows)} = LogDates
    /\ \A i \in 1..Len(rows) : \A j \in (i + 1)..Len(rows) : rows[i].date < rows[j].date

\* C13: for every non-empty log, the feature table build_features returns and
\* the score table compute_scores returns have exactly one row for each
\* distinct normalized date of the log, in ascending date order.
C13_OneRowPerDateSorted ==
    (ret.op \in {"build_features", "compute_scores"} /\ logs # <<>>) =>
        (~ret.raised /\ OneRowPerDate(ret.value))

\* clamp((raw + 100) / 200 * 100, 0, 100) of the day's one raw value
OtherOfDay(f, config) ==
    score_other(f.other_good, f.other_bad, config.other.good_points, config.other.bad_points)

\* C14: for every day of the score table, the other_good and the other_bad
\* component are both the score of the same raw value
\* good_count * good_points - bad_count * bad_points, hence equal.
C14_OtherSameRaw ==
    (ret.op = "compute_scores" /\ ~ret.raised) =>
        \A i \in 1..Len(ret.value) :
            /\ ret.value[i].components["other_good"] = OtherOfDay(features_csv.rows[i], cfg)
            /\ ret.value[i].components["other_bad"] = OtherOfDay(features_csv.rows[i], cfg)

\* min(100, (ayah_count * points_per_ayah) / max_daily_points * 100)
QuranOfDay(f, config) ==
    Min(Hundred,
        Points(f.quran_items * config.quran.points_per_ayah[1] * 100,
               config.quran.points_per_ayah[2] * config.quran.max_daily_points))

\* C15: the quran_recitation component of every score record equals
\* min(100, (ayah_count * points_per_ayah) / max_daily_points * 100) for the
\* day's recitation total and the config's points_per_ayah and max_daily_points.
C15_QuranFormula ==
    (ret.op = "compute_scores" /\ ~ret.raised) =>
        \A i \in 1..Len(ret.value) :
            ret.value[i].components["quran_recitation"] = QuranOfDay(features_csv.rows[i], cfg)

TableDates(file) == {file.rows[i].date : i \in 1..Len(file.rows)}

\* the persisted tables are the ones derived from the log and the config
TablesFresh ==
    /\ features_csv.exists /\ scores_csv.exists /\ outcomes_csv.exists
    /\ TableDates(features_csv) = LogDates
    /\ TableDates(scores_csv) = LogDates
    /\ TableDates(outcomes_csv) = LogDates
    /\ Len(scores_csv.rows) = Len(features_csv.rows)
    /\ Len(outcomes_csv.rows) = Len(features_csv.rows)
    /\ \A i \in 1..Len(features_csv.rows) :
           \E j \in EntriesFor(features_csv.rows[i].date) :
               features_csv.rows[i] = FeatureRow(logs[j], cfg)
    /\ MissingSections(cfg) = {} =>
           \A i \in 1..Len(scores_csv.rows) :
               scores_csv.rows[i] = ScoreRow(features_csv.rows[i], cfg)
    /\ \A i \in 1..Len(outcomes_csv.rows) :
           outcomes_csv.rows[i] = OutcomeRow(scores_csv.rows[i])

\* C16: after every run of compute_scores on a log with entries, whatever
\* appends, config edits and earlier runs preceded it, the persisted feature,
\* score and outcomes tables are the tables derived from the log and the
\* config as they are at that run.
C16_TablesRecomputed == (ret.op = "compute_scores" /\ logs # <<>>) => TablesFresh

\* C17: whenever train_and_analyze has run on an existing feature table, the
\* table has a row for the date of every entry that is in the log.
C17_AnalyzerReadsCurrent ==
    (ret.op = "train_and_analyze" /\ features_csv.exists) =>
        LogDates \subseteq TableDates(features_csv)

====
